---- MODULE Spec2Model ----
(***************************************************************************)
(* FCN-32s / FCN-16s / FCN-8s decoders and their factories (models/fcn.py). *)
(*                                                                         *)
(* A tensor is one image of a batch: its channel count, its spatial size   *)
(* and one representative channel plane of exact rationals val[p] / den.   *)
(* Arithmetic is exact: floating-point rounding is not modelled.           *)
(* The backbone (models/vgg.py), the dataset registry (data_loader) and    *)
(* the model store (models/model_store.py) are collaborators whose code is *)
(* not part of models/fcn.py; they are modelled from their contracts.      *)
(***************************************************************************)
EXTENDS Integers, Sequences, FiniteSets, TLC

\* ------------------------------------------------------------------ bounds

\* Largest input height and width explored.
MaxH == 3
MaxW == 2
\* Input images are told apart by a seed in 0..MaxSeed.
MaxSeed == 1

\* ------------------------------------------------------- program constants

\* _FCNHead(512, nclass): channels of pool5 (and of pool4's skip tap).
HeadInChannels == 512
\* nn.Conv2d(256, nclass, 1): channels of pool3's skip tap.
Pool3Channels == 256
\* nn.Dropout(0.1): one element in DropoutDen is dropped, survivors are
\* scaled by DropoutDen / (DropoutDen - 1).
DropoutDen == 10
\* nn.BatchNorm2d default momentum 0.1 = 1 / BNMomentumDen.
BNMomentumDen == 10

\* ------------------------------------------------------------ tensor algebra

Abs(n) == IF n < 0 THEN -n ELSE n

RECURSIVE GCD(_, _)
GCD(a, b) == IF b = 0 THEN Abs(a) ELSE GCD(Abs(b), Abs(a) % Abs(b))

Min(a, b) == IF a < b THEN a ELSE b
Max(a, b) == IF a > b THEN a ELSE b

Pos(h, w) == (1..h) \X (1..w)

\* The k-th position of an h x w plane in row-major order, k in 1..h*w.
At(k, w) == <<((k - 1) \div w) + 1, ((k - 1) % w) + 1>>

\* The sum of the first n values of a plane of width w.
RECURSIVE SumOver(_, _, _)
SumOver(f, w, n) == IF n = 0 THEN 0 ELSE f[At(n, w)] + SumOver(f, w, n - 1)

\* x.size()[2:]
SizeOf(t) == <<t.h, t.w>>

\* The greatest common divisor of g and the first n values of a plane of width w.
RECURSIVE GCDOver(_, _, _, _)
GCDOver(f, w, n, g) ==
    IF n = 0 \/ g = 1 THEN g ELSE GCDOver(f, w, n - 1, GCD(g, f[At(n, w)]))

\* The first n values of plane f of width w, as an explicit table.
RECURSIVE Table(_, _, _)
Table(f, w, n) ==
    IF n = 1 THEN At(1, w) :> f[At(1, w)]
    ELSE Table(f, w, n - 1) @@ (At(n, w) :> f[At(n, w)])

Lowest(c, h, w, den, v, g) ==
    [c |-> c, h |-> h, w |-> w, den |-> den \div g,
     val |-> IF g = 1 THEN v ELSE Table([p \in Pos(h, w) |-> v[p] \div g], w, h * w)]

Tabled(c, h, w, den, v) == Lowest(c, h, w, den, v, GCDOver(v, w, h * w, den))

\* A tensor: c channels, size h x w, values val[p] / den in lowest terms.
Tensor(c, h, w, den, val) == Tabled(c, h, w, den, Table(val, w, h * w))

Zeros(c, h, w) == Tensor(c, h, w, 1, [p \in Pos(h, w) |-> 0])

SameShape(a, b) == a.c = b.c /\ a.h = b.h /\ a.w = b.w

\* Equality of the rational values of two tensors of one shape.
TEq(a, b) ==
    /\ SameShape(a, b)
    /\ \A p \in Pos(a.h, a.w) : a.val[p] * b.den = b.val[p] * a.den

IsZero(t) == \A p \in Pos(t.h, t.w) : t.val[p] = 0

\* One axis of F.interpolate(mode='bilinear', align_corners=True): output
\* index i (from 1) of `on` samples source coordinate (i-1)*(in-1)/(on-1),
\* or 0 when on = 1.  lo/hi are the two source indices (from 1), and the
\* weights wlo/whi are scaled by AxisDen(on).
AxisDen(on) == IF on > 1 THEN on - 1 ELSE 1

AxisNum(i, inn, on) == IF on > 1 THEN (i - 1) * (inn - 1) ELSE 0

AxisLo(i, inn, on) == (AxisNum(i, inn, on) \div AxisDen(on)) + 1

AxisHi(i, inn, on) == Min(AxisLo(i, inn, on) + 1, inn)

AxisWHi(i, inn, on) == AxisNum(i, inn, on) % AxisDen(on)

AxisWLo(i, inn, on) == AxisDen(on) - AxisWHi(i, inn, on)

\* F.interpolate(t, size, mode='bilinear', align_corners=True)
Interpolate(t, size) ==
    LET oh == size[1]
        ow == size[2]
        il == [i \in 1..oh |-> AxisLo(i, t.h, oh)]
        ih == [i \in 1..oh |-> AxisHi(i, t.h, oh)]
        a == [i \in 1..oh |-> AxisWLo(i, t.h, oh)]
        b == [i \in 1..oh |-> AxisWHi(i, t.h, oh)]
        jl == [j \in 1..ow |-> AxisLo(j, t.w, ow)]
        jh == [j \in 1..ow |-> AxisHi(j, t.w, ow)]
        c == [j \in 1..ow |-> AxisWLo(j, t.w, ow)]
        d == [j \in 1..ow |-> AxisWHi(j, t.w, ow)]
        v(i, j) ==
              a[i] * c[j] * t.val[<<il[i], jl[j]>>] + a[i] * d[j] * t.val[<<il[i], jh[j]>>]
            + b[i] * c[j] * t.val[<<ih[i], jl[j]>>] + b[i] * d[j] * t.val[<<ih[i], jh[j]>>]
    IN  Tensor(t.c, oh, ow, t.den * AxisDen(oh) * AxisDen(ow),
               [p \in Pos(oh, ow) |-> v(p[1], p[2])])

\* a + b on two score maps of one shape (the cascade always aligns them first).
Add(a, b) ==
    Tensor(a.c, a.h, a.w, a.den * b.den,
           [p \in Pos(a.h, a.w) |-> a.val[p] * b.den + b.val[p] * a.den])


\* ------------------------------------------------------------------ layers

\* nn.Conv2d(cin, cout, 1): a 1x1 convolution with bias, w * x + b per pixel.
Conv1x1(t, w, b, cout) ==
    Tensor(cout, t.h, t.w, t.den,
           [p \in Pos(t.h, t.w) |-> w * t.val[p] + b * t.den])

\* nn.Conv2d(cin, cout, 3, padding=1, bias=False): centre tap wc, the eight
\* other taps wo, zero padding; the spatial size is kept.
Conv3x3(t, wc, wo, cout) ==
    LET at(i, j) == IF i \in 1..t.h /\ j \in 1..t.w THEN t.val[<<i, j>>] ELSE 0
        ring(i, j) == at(i-1, j-1) + at(i-1, j) + at(i-1, j+1)
                    + at(i, j-1) + at(i, j+1)
                    + at(i+1, j-1) + at(i+1, j) + at(i+1, j+1)
    IN  Tensor(cout, t.h, t.w, t.den,
               [p \in Pos(t.h, t.w) |-> wc * at(p[1], p[2]) + wo * ring(p[1], p[2])])

PlaneSum(t) == SumOver(t.val, t.w, t.h * t.w)

\* nn.BatchNorm2d in training mode: centre on the batch mean, then gamma, beta.
\* (The division by sqrt(var + eps) is irrational and is left out.)
BNTrain(t, gamma, beta) ==
    LET cnt == t.h * t.w
        s == PlaneSum(t)
    IN  Tensor(t.c, t.h, t.w, cnt * t.den,
               [p \in Pos(t.h, t.w) |->
                   gamma * (cnt * t.val[p] - s) + beta * cnt * t.den])

\* nn.BatchNorm2d in evaluation mode: centre on running_mean = rmn / rmd.
BNEval(t, gamma, beta, rmn, rmd) ==
    Tensor(t.c, t.h, t.w, t.den * rmd,
           [p \in Pos(t.h, t.w) |->
               gamma * (t.val[p] * rmd - rmn * t.den) + beta * t.den * rmd])

\* nn.ReLU(inplace=True)
ReLU(t) ==
    Tensor(t.c, t.h, t.w, t.den, [p \in Pos(t.h, t.w) |-> Max(0, t.val[p])])

\* nn.Dropout(0.1): identity in evaluation mode; in training mode the
\* elements of `drop` are zeroed and the others scaled by 1 / (1 - 0.1).
Dropout(t, training, drop) ==
    IF ~training THEN t
    ELSE Tensor(t.c, t.h, t.w, t.den * (DropoutDen - 1),
                [p \in Pos(t.h, t.w) |->
                    IF p \in drop THEN 0 ELSE t.val[p] * DropoutDen])

\* The drop patterns explored for a plane: nothing dropped, or its first element.
DropMasks(training) == IF training THEN {{}, {<<1, 1>>}} ELSE {{}}

\* BatchNorm2d raises ValueError("Expected more than 1 value per channel when
\* training") on a batch of one 1x1 plane.
BNRaises(t, training) == training /\ t.h * t.w = 1

\* BNTrack with the buffers updated in evaluation mode too.
BNTrack_Always(hp, t, training) ==
    LET cnt == t.h * t.w
        s == PlaneSum(t)
        num == (BNMomentumDen - 1) * hp.rmn * cnt * t.den + hp.rmd * s
        den == BNMomentumDen * hp.rmd * cnt * t.den
        g == GCD(num, den)
    IN  [hp EXCEPT !.nbt = @ + 1, !.rmn = num \div g, !.rmd = den \div g]

\* The buffers of BatchNorm2d after a forward pass over conv1's output t.
\* num_batches_tracked is incremented before the batch size is verified;
\* running_mean moves by momentum 1/BNMomentumDen towards the batch mean.
BNTrack(hp, t, training) ==
    IF ~training THEN hp
    ELSE IF BNRaises(t, training) THEN [hp EXCEPT !.nbt = @ + 1]
    ELSE LET cnt == t.h * t.w
             s == PlaneSum(t)
             num == (BNMomentumDen - 1) * hp.rmn * cnt * t.den + hp.rmd * s
             den == BNMomentumDen * hp.rmd * cnt * t.den
             g == GCD(num, den)
         IN  [hp EXCEPT !.nbt = @ + 1, !.rmn = num \div g, !.rmd = den \div g]

\* _FCNHead.__init__: inter_channels = in_channels // 4
InterChannels(cin) == cin \div 4

\* _FCNHead.forward: conv3x3 -> BatchNorm -> ReLU -> Dropout -> conv1x1.
HeadForward(hp, t, training, drop) ==
    LET c1 == Conv3x3(t, hp.wc, hp.wo, InterChannels(hp.cin))
        bn == IF training THEN BNTrain(c1, hp.gamma, hp.beta)
              ELSE BNEval(c1, hp.gamma, hp.beta, hp.rmn, hp.rmd)
    IN  Conv1x1(Dropout(ReLU(bn), training, drop), hp.w2, hp.b2, hp.cout)

\* conv1's output, the plane BatchNorm2d sees.
HeadBNInput(hp, t) == Conv3x3(t, hp.wc, hp.wo, InterChannels(hp.cin))

\* self.score_pool4(pool4), self.score_pool3(pool3)
ProjectorForward(pp, t) == Conv1x1(t, pp.w, pp.b, pp.cout)

\* ------------------------------------------------------------ collaborators

\* data_loader.datasets: dataset id -> NUM_CLASS.  "sbu" stands for a dataset
\* the registry knows and the factories' acronyms table does not.
datasets == [pascal_voc |-> 21, ade20k |-> 150, sbu |-> 2]

\* The dataset ids callers pass, one of them unregistered.
DatasetIds == DOMAIN datasets \cup {"not_a_dataset"}

\* The backbone ids callers pass, one of them unsupported.
BackboneIds == {"vgg16", "resnet999"}

\* vgg16(pretrained=pretrained_base).features: the backbone's parameters,
\* told apart as randomly initialised (0) or generically pretrained (1).
vgg16(pretrained_base) == IF pretrained_base THEN 1 ELSE 0

\* The backbone parameters stored in a whole-model weight blob.
BlobFeatures == 2

\* The activation at (i, j) of the backbone's plane at a cut-point (level 3,
\* 4 or 5) for input `seed` and backbone parameters `tag`: a fixed
\* non-negative, non-affine map standing for the black-box extractor.
Feat(seed, tag, level, i, j) == ((seed + 1) * i * i + level * j + i * j + tag) % 3

FeatureMap(seed, tag, level, c, size) ==
    Tensor(c, size[1], size[2], 1,
           [p \in Pos(size[1], size[2]) |-> Feat(seed, tag, level, p[1], p[2])])

\* ------------------------------------------------------------- parameters

Variants == {"FCN32s", "FCN16s", "FCN8s"}

\* Freshly constructed _FCNHead(512, nclass): representative random
\* convolution weights, BatchNorm2d's defaults (weight 1, bias 0,
\* running_mean 0, num_batches_tracked 0).
FreshHead(nclass) ==
    [cin |-> HeadInChannels, cout |-> nclass, wc |-> 2, wo |-> -1,
     gamma |-> 1, beta |-> 0, w2 |-> 1, b2 |-> 1, rmn |-> 0, rmd |-> 1, nbt |-> 0]

FreshAuxHead(nclass) ==
    [cin |-> HeadInChannels, cout |-> nclass, wc |-> 1, wo |-> 1,
     gamma |-> 1, beta |-> 0, w2 |-> -1, b2 |-> 0, rmn |-> 0, rmd |-> 1, nbt |-> 0]

\* nn.Conv2d(512, nclass, 1) and nn.Conv2d(256, nclass, 1), freshly constructed.
FreshScorePool4(nclass) == [cin |-> HeadInChannels, cout |-> nclass, w |-> 1, b |-> -1]

FreshScorePool3(nclass) == [cin |-> Pool3Channels, cout |-> nclass, w |-> -1, b |-> 1]

\* The sub-modules a variant registers, i.e. the prefixes of its state_dict keys.
BackboneKeys(variant) ==
    CASE variant = "FCN32s" -> {"features"}
      [] variant = "FCN16s" -> {"features", "pool4", "pool5"}
      [] variant = "FCN8s" -> {"features", "pool3", "pool4", "pool5"}

DecoderKeys(variant, aux) ==
    (CASE variant = "FCN32s" -> {"head"}
       [] variant = "FCN16s" -> {"head", "score_pool4"}
       [] variant = "FCN8s" -> {"head", "score_pool3", "score_pool4"})
    \cup (IF aux THEN {"auxlayer"} ELSE {})

FreshParam(k, nclass) ==
    CASE k = "head" -> FreshHead(nclass)
      [] k = "auxlayer" -> FreshAuxHead(nclass)
      [] k = "score_pool4" -> FreshScorePool4(nclass)
      [] k = "score_pool3" -> FreshScorePool3(nclass)

\* The contents of weight blob number id: blob 2 holds an all-zero
\* score_pool3 projector.
BlobIds == {1, 2}

BlobParam(k, nclass, id) ==
    CASE k = "head" ->
            [cin |-> HeadInChannels, cout |-> nclass, wc |-> 1, wo |-> 0,
             gamma |-> 2, beta |-> 1, w2 |-> id, b2 |-> 0, rmn |-> 1, rmd |-> 2, nbt |-> 3]
      [] k = "auxlayer" ->
            [cin |-> HeadInChannels, cout |-> nclass, wc |-> 0, wo |-> 1,
             gamma |-> 1, beta |-> 1, w2 |-> 2, b2 |-> -1, rmn |-> 1, rmd |-> 1, nbt |-> 3]
      [] k = "score_pool4" -> [cin |-> HeadInChannels, cout |-> nclass, w |-> 2, b |-> 1]
      [] k = "score_pool3" ->
            [cin |-> Pool3Channels, cout |-> nclass,
             w |-> IF id = 2 THEN 0 ELSE 1, b |-> IF id = 2 THEN 0 ELSE 1]

\* A weight file: the state_dict saved from a model of some variant.
Blob(variant, aux, nclass, id) ==
    [k \in BackboneKeys(variant) \cup DecoderKeys(variant, aux) |->
        IF k \in BackboneKeys(variant) THEN BlobFeatures ELSE BlobParam(k, nclass, id)]

Blobs ==
    {Blob(v, a, n, id) : v \in Variants, a \in BOOLEAN,
                         n \in {datasets[d] : d \in DOMAIN datasets}, id \in BlobIds}

\* get_model_file raises when the store holds no file for the key.
NoFile == [missing |-> TRUE]

\* ------------------------------------------------------------ construction

NoModel == [variant |-> "none"]

\* FCNxx.__init__ up to the backbone: nn.Module.__init__ (training mode),
\* self.aux = aux, self.features = vgg16(pretrained=pretrained_base).features.
WithBackbone(variant, nclass, aux, pretrained_base) ==
    [variant |-> variant, nclass |-> nclass, aux |-> aux, training |-> TRUE,
     sd |-> [k \in {"features"} |-> vgg16(pretrained_base)]]

\* The rest of FCNxx.__init__: the backbone sub-ranges (sharing the backbone's
\* parameters), the Head, the Score Projectors and, with aux, the auxiliary Head.
WithDecoder(obj) ==
    [obj EXCEPT !.sd =
        [k \in BackboneKeys(obj.variant) \cup DecoderKeys(obj.variant, obj.aux) |->
            IF k \in BackboneKeys(obj.variant) THEN obj.sd["features"]
            ELSE FreshParam(k, obj.nclass)]]

\* The events of the decoder's construction, in the order of the code.
DecoderEvents(variant, aux) ==
    <<"head">>
    \o (IF variant = "FCN8s" THEN <<"score_pool3">> ELSE <<>>)
    \o (IF variant \in {"FCN16s", "FCN8s"} THEN <<"score_pool4">> ELSE <<>>)
    \o (IF aux THEN <<"auxlayer">> ELSE <<>>)

\* model.load_state_dict(state) with strict=True: every key of the model must
\* be in the file and the reverse, and every tensor must have the model's shape.
LoadMismatch(obj, state) ==
    \/ DOMAIN state # DOMAIN obj.sd
    \/ \E k \in DOMAIN obj.sd \cap DOMAIN state :
          /\ k \notin BackboneKeys(obj.variant)
          /\ state[k].cout # obj.sd[k].cout

LoadStateDict(obj, state) == [obj EXCEPT !.sd = state]

\* ------------------------------------------------------------------- state

VARIABLES
    pc,       \* where the caller's current call stands
    call,     \* the arguments of the factory or constructor call in progress
    obj,      \* the object under construction (self), NoModel before
    model,    \* the model the caller holds, NoModel while it holds none
    log,      \* what the call has done so far, in order
    err,      \* the exception that ended the call, "none" otherwise
    blob,     \* what the model store resolved for the call, NoFile if nothing
    xin,      \* forward's input x: its spatial size and its seed
    loc,      \* forward's local tensors, by the names of the code
    outputs,  \* forward's list `outputs`
    ops       \* the interpolations and additions forward has done, in order

vars == <<pc, call, obj, model, log, err, blob, xin, loc, outputs, ops>>

fwdVars == <<xin, loc, outputs, ops>>

NoCall == [kind |-> "none"]

NoInput == [h |-> 0, w |-> 0, seed |-> 0]

Event(ev, arg) == [ev |-> ev, arg |-> arg]

Events(names) == [i \in 1..Len(names) |-> Event(names[i], "")]

Idle ==
    /\ pc = "idle"
    /\ call = NoCall
    /\ obj = NoModel
    /\ model = NoModel
    /\ log = <<>>
    /\ err = "none"
    /\ blob = NoFile
    /\ xin = NoInput
    /\ loc = <<>>
    /\ outputs = <<>>
    /\ ops = <<>>

Init == Idle

\* ----------------------------------------------------------------- factory

\* The acronyms table of get_fcn32s, get_fcn16s and get_fcn8s.
acronyms ==
    [pascal_voc |-> "pascal_voc", pascal_aug |-> "pascal_aug", ade20k |-> "ade",
     coco |-> "coco", citys |-> "citys"]

\* ModelKey with each factory naming its own variant.
ModelKey_OwnVariant(variant, backbone, acronym) ==
    CASE variant = "FCN32s" -> "fcn32s_" \o backbone \o "_" \o acronym
      [] variant = "FCN16s" -> "fcn16s_" \o backbone \o "_" \o acronym
      [] variant = "FCN8s" -> "fcn8s_" \o backbone \o "_" \o acronym

\* 'fcn32s_%s_%s' % (backbone, acronyms[dataset]), as written in the factory
\* of each variant.
ModelKey(variant, backbone, acronym) ==
    CASE variant = "FCN32s" -> "fcn32s_" \o backbone \o "_" \o acronym
      [] variant = "FCN16s" -> "fcn32s_" \o backbone \o "_" \o acronym
      [] variant = "FCN8s" -> "fcn32s_" \o backbone \o "_" \o acronym

\* A call of get_fcn32s, get_fcn16s or get_fcn8s.
Factory(variant) ==
    /\ pc = "idle"
    /\ \E d \in DatasetIds, b \in BackboneIds, p \in BOOLEAN, pb \in BOOLEAN, a \in BOOLEAN :
          call' = [kind |-> "factory", variant |-> variant, dataset |-> d,
                   backbone |-> b, pretrained |-> p, pretrained_base |-> pb,
                   aux |-> a, nclass |-> 0]
    /\ pc' = "resolve"
    /\ UNCHANGED <<obj, model, log, err, blob, fwdVars>>

get_fcn32s == Factory("FCN32s")

get_fcn16s == Factory("FCN16s")

get_fcn8s == Factory("FCN8s")

\* A direct call of a variant's constructor, FCNxx(nclass, backbone, aux, pretrained_base).
Construct ==
    /\ pc = "idle"
    /\ \E v \in Variants, d \in DOMAIN datasets, b \in BackboneIds,
          pb \in BOOLEAN, a \in BOOLEAN :
          call' = [kind |-> "direct", variant |-> v, dataset |-> "",
                   backbone |-> b, pretrained |-> FALSE, pretrained_base |-> pb,
                   aux |-> a, nclass |-> datasets[d]]
    /\ pc' = "init"
    /\ UNCHANGED <<obj, model, log, err, blob, fwdVars>>

\* ResolveNclass with the class count looked up leniently: an unregistered
\* dataset gets the default dataset's count and construction goes on.
ResolveNclass_Lenient ==
    /\ pc = "resolve"
    /\ log' = Append(log, Event("datasets", call.dataset))
    /\ call' = [call EXCEPT !.nclass = IF call.dataset \in DOMAIN datasets
                                       THEN datasets[call.dataset]
                                       ELSE datasets["pascal_voc"]]
    /\ pc' = "init"
    /\ UNCHANGED <<obj, model, err, blob, fwdVars>>

\* datasets[dataset].NUM_CLASS, evaluated as the constructor's first argument.
ResolveNclass ==
    /\ pc = "resolve"
    /\ log' = Append(log, Event("datasets", call.dataset))
    /\ IF call.dataset \in DOMAIN datasets
       THEN /\ call' = [call EXCEPT !.nclass = datasets[call.dataset]]
            /\ pc' = "init"
            /\ err' = err
       ELSE /\ pc' = "raised"
            /\ err' = "KeyError: dataset"
            /\ call' = call
    /\ UNCHANGED <<obj, model, blob, fwdVars>>

\* InitBackbone with an unknown backbone falling back to vgg16.
InitBackbone_Fallback ==
    /\ pc = "init"
    /\ obj' = WithBackbone(call.variant, call.nclass, call.aux, call.pretrained_base)
    /\ log' = Append(log, Event("vgg16", IF call.pretrained_base
                                         THEN "pretrained" ELSE "random"))
    /\ pc' = "decoder"
    /\ UNCHANGED <<call, model, err, blob, fwdVars>>

\* FCNxx.__init__ down to the backbone test.
InitBackbone ==
    /\ pc = "init"
    /\ IF call.backbone = "vgg16"
       THEN /\ obj' = WithBackbone(call.variant, call.nclass, call.aux, call.pretrained_base)
            /\ log' = Append(log, Event("vgg16", IF call.pretrained_base
                                                 THEN "pretrained" ELSE "random"))
            /\ pc' = "decoder"
            /\ err' = err
       ELSE /\ obj' = [variant |-> call.variant, nclass |-> call.nclass,
                       aux |-> call.aux, training |-> TRUE, sd |-> <<>>]
            /\ log' = log
            /\ pc' = "raised"
            /\ err' = "RuntimeError: unknown backbone"
    /\ UNCHANGED <<call, model, blob, fwdVars>>

\* The rest of FCNxx.__init__; a direct constructor call returns the object.
InitDecoder ==
    /\ pc = "decoder"
    /\ obj' = WithDecoder(obj)
    /\ log' = log \o Events(DecoderEvents(obj.variant, obj.aux))
    /\ pc' = IF call.kind = "direct" THEN "returned"
             ELSE IF call.pretrained THEN "load" ELSE "return"
    /\ model' = IF call.kind = "direct" THEN WithDecoder(obj) ELSE model
    /\ UNCHANGED <<call, err, blob, fwdVars>>

\* LoadPretrained with a missing weight file swallowed: the model goes on
\* with the weights it was constructed with.
LoadPretrained_Fallback ==
    /\ pc = "load"
    /\ \E file \in Blobs \cup {NoFile} :
          IF call.dataset \notin DOMAIN acronyms
          THEN /\ pc' = "raised"
               /\ err' = "KeyError: acronym"
               /\ UNCHANGED <<obj, log, blob>>
          ELSE LET key == ModelKey(call.variant, call.backbone, acronyms[call.dataset])
                   asked == Append(log, Event("get_model_file", key))
               IN  /\ blob' = file
                   /\ IF file = NoFile
                      THEN /\ pc' = "return"
                           /\ err' = err
                           /\ log' = asked
                           /\ obj' = obj
                      ELSE IF LoadMismatch(obj, file)
                      THEN /\ pc' = "raised"
                           /\ err' = "RuntimeError: load_state_dict"
                           /\ log' = asked \o Events(<<"torch.load", "load_state_dict">>)
                           /\ obj' = obj
                      ELSE /\ pc' = "return"
                           /\ err' = err
                           /\ log' = asked \o Events(<<"torch.load", "load_state_dict">>)
                           /\ obj' = LoadStateDict(obj, file)
    /\ UNCHANGED <<call, model, fwdVars>>

\* if pretrained: model.load_state_dict(torch.load(get_model_file(key, root=root)))
LoadPretrained ==
    /\ pc = "load"
    /\ \E file \in Blobs \cup {NoFile} :
          IF call.dataset \notin DOMAIN acronyms
          THEN /\ pc' = "raised"
               /\ err' = "KeyError: acronym"
               /\ UNCHANGED <<obj, log, blob>>
          ELSE LET key == ModelKey(call.variant, call.backbone, acronyms[call.dataset])
                   asked == Append(log, Event("get_model_file", key))
               IN  /\ blob' = file
                   /\ IF file = NoFile
                      THEN /\ pc' = "raised"
                           /\ err' = "WeightsNotFound"
                           /\ log' = asked
                           /\ obj' = obj
                      ELSE IF LoadMismatch(obj, file)
                      THEN /\ pc' = "raised"
                           /\ err' = "RuntimeError: load_state_dict"
                           /\ log' = asked \o Events(<<"torch.load", "load_state_dict">>)
                           /\ obj' = obj
                      ELSE /\ pc' = "return"
                           /\ err' = err
                           /\ log' = asked \o Events(<<"torch.load", "load_state_dict">>)
                           /\ obj' = LoadStateDict(obj, file)
    /\ UNCHANGED <<call, model, fwdVars>>

\* return model
FactoryReturn ==
    /\ pc = "return"
    /\ model' = obj
    /\ pc' = "returned"
    /\ UNCHANGED <<call, obj, log, err, blob, fwdVars>>

\* The caller goes on to its next call; what the last one left is dropped.
NextCall ==
    /\ pc \in {"returned", "raised"}
    /\ pc' = "idle"
    /\ call' = NoCall
    /\ obj' = NoModel
    /\ model' = NoModel
    /\ log' = <<>>
    /\ err' = "none"
    /\ blob' = NoFile
    /\ UNCHANGED fwdVars

Next ==
    \/ get_fcn32s
    \/ get_fcn16s
    \/ get_fcn8s
    \/ Construct
    \/ ResolveNclass
    \/ InitBackbone
    \/ InitDecoder
    \/ LoadPretrained
    \/ FactoryReturn
    \/ NextCall

Spec == Init /\ [][Next]_vars

\* ----------------------------------------------------------------- forward

\* The spatial sizes the backbone's cut-points can have for an input of size
\* (h, w): each at least 1 and none larger than the shallower one before it.
\* A cut-point the variant does not tap has size <<0, 0>>.
SizesUpTo(size) == (1..size[1]) \X (1..size[2])

Pyramids(variant, h, w) ==
    CASE variant = "FCN32s" ->
            {[s3 |-> <<0, 0>>, s4 |-> <<0, 0>>, s5 |-> s5] : s5 \in SizesUpTo(<<h, w>>)}
      [] variant = "FCN16s" ->
            {[s3 |-> <<0, 0>>, s4 |-> p[1], s5 |-> p[2]] :
                p \in {q \in SizesUpTo(<<h, w>>) \X SizesUpTo(<<h, w>>) :
                          q[2] \in SizesUpTo(q[1])}}
      [] variant = "FCN8s" ->
            {[s3 |-> p[1], s4 |-> p[2], s5 |-> p[3]] :
                p \in {q \in SizesUpTo(<<h, w>>) \X SizesUpTo(<<h, w>>) \X SizesUpTo(<<h, w>>) :
                          q[2] \in SizesUpTo(q[1]) /\ q[3] \in SizesUpTo(q[2])}}

\* The feature maps forward's first lines compute:
\*   FCN32s  pool5 = self.features(x)
\*   FCN16s  pool4 = self.pool4(x); pool5 = self.pool5(pool4)
\*   FCN8s   pool3 = self.pool3(x); pool4 = self.pool4(pool3); pool5 = self.pool5(pool4)
Features(m, seed, pyr) ==
    LET last == IF m.variant = "FCN32s" THEN "features" ELSE "pool5"
        p5 == "pool5" :> FeatureMap(seed, m.sd[last], 5, HeadInChannels, pyr.s5)
        p4 == "pool4" :> FeatureMap(seed, m.sd["pool4"], 4, HeadInChannels, pyr.s4)
        p3 == "pool3" :> FeatureMap(seed, m.sd["pool3"], 3, Pool3Channels, pyr.s3)
    IN  CASE m.variant = "FCN32s" -> p5
          [] m.variant = "FCN16s" -> p4 @@ p5
          [] m.variant = "FCN8s" -> p3 @@ p4 @@ p5

Op(op, a, b, res) == [op |-> op, a |-> a, b |-> b, res |-> res]

\* model.eval() and model.train() of nn.Module, before a forward call.
Eval ==
    /\ pc = "ready"
    /\ model.training
    /\ model' = [model EXCEPT !.training = FALSE]
    /\ UNCHANGED <<pc, call, obj, log, err, blob, fwdVars>>

Train ==
    /\ pc = "ready"
    /\ ~model.training
    /\ model' = [model EXCEPT !.training = TRUE]
    /\ UNCHANGED <<pc, call, obj, log, err, blob, fwdVars>>

\* forward(x): the backbone's feature maps, then outputs = [].
ForwardFeatures ==
    /\ pc = "ready"
    /\ \E h \in 1..MaxH, w \in 1..MaxW, seed \in 0..MaxSeed :
          \E pyr \in Pyramids(model.variant, h, w) :
             /\ xin' = [h |-> h, w |-> w, seed |-> seed]
             /\ loc' = Features(model, seed, pyr)
    /\ outputs' = <<>>
    /\ ops' = <<>>
    /\ pc' = "head"
    /\ UNCHANGED <<call, obj, model, log, err, blob>>

\* A Head applied to pool5: the score map, or BatchNorm2d's ValueError; in
\* training mode the Head's BatchNorm2d buffers are updated.
HeadCall(name, res, drop, then) ==
    LET hp == model.sd[name]
        bnin == HeadBNInput(hp, loc["pool5"])
    IN  /\ model' = [model EXCEPT !.sd[name] = BNTrack(hp, bnin, model.training)]
        /\ IF BNRaises(bnin, model.training)
           THEN /\ pc' = "raised"
                /\ err' = "ValueError: batch_norm"
                /\ loc' = loc
           ELSE /\ pc' = then
                /\ err' = err
                /\ loc' = loc @@ (res :> HeadForward(hp, loc["pool5"], model.training, drop))

\* score_fr = self.head(pool5)   (FCN32s names it out)
ForwardHead ==
    /\ pc = "head"
    /\ \E drop \in DropMasks(model.training) :
          HeadCall("head", "score_fr", drop,
                   IF model.variant = "FCN32s" THEN "upsample" ELSE "project")
    /\ UNCHANGED <<call, obj, log, blob, xin, outputs, ops>>

\* score_pool4 = self.score_pool4(pool4); score_pool3 = self.score_pool3(pool3)
ForwardProject ==
    /\ pc = "project"
    /\ loc' = loc @@ ("score_pool4" :> ProjectorForward(model.sd["score_pool4"], loc["pool4"]))
                  @@ (IF model.variant = "FCN8s"
                      THEN "score_pool3" :> ProjectorForward(model.sd["score_pool3"], loc["pool3"])
                      ELSE <<>>)
    /\ pc' = "fuse_pool4"
    /\ UNCHANGED <<call, obj, model, log, err, blob, xin, outputs, ops>>

\* upscore2 = F.interpolate(score_fr, score_pool4.size()[2:], ...)
Upscore2(score_fr, score_pool4) == Interpolate(score_fr, SizeOf(score_pool4))

\* FusePool4 with the skip score shrunk to the coarse score's size.
FusePool4_SkipResized(score_fr, score_pool4) ==
    Add(score_fr, Interpolate(score_pool4, SizeOf(score_fr)))

\* fuse_pool4 = upscore2 + score_pool4
FusePool4(score_fr, score_pool4) == Add(Upscore2(score_fr, score_pool4), score_pool4)

ForwardFusePool4 ==
    /\ pc = "fuse_pool4"
    /\ loc' = loc @@ ("upscore2" :> Upscore2(loc["score_fr"], loc["score_pool4"]))
                  @@ ("fuse_pool4" :> FusePool4(loc["score_fr"], loc["score_pool4"]))
    /\ ops' = ops \o <<Op("interpolate", "score_fr", "score_pool4", "upscore2"),
                       Op("add", "upscore2", "score_pool4", "fuse_pool4")>>
    /\ pc' = IF model.variant = "FCN8s" THEN "fuse_pool3" ELSE "upsample"
    /\ UNCHANGED <<call, obj, model, log, err, blob, xin, outputs>>

\* upscore_pool4 = F.interpolate(fuse_pool4, score_pool3.size()[2:], ...)
UpscorePool4(fuse_pool4, score_pool3) == Interpolate(fuse_pool4, SizeOf(score_pool3))

\* FusePool3 with the skip score left out.
FusePool3_Dropped(fuse_pool4, score_pool3) == UpscorePool4(fuse_pool4, score_pool3)

\* fuse_pool3 = upscore_pool4 + score_pool3
FusePool3(fuse_pool4, score_pool3) == Add(UpscorePool4(fuse_pool4, score_pool3), score_pool3)

ForwardFusePool3 ==
    /\ pc = "fuse_pool3"
    /\ loc' = loc @@ ("upscore_pool4" :> UpscorePool4(loc["fuse_pool4"], loc["score_pool3"]))
                  @@ ("fuse_pool3" :> FusePool3(loc["fuse_pool4"], loc["score_pool3"]))
    /\ ops' = ops \o <<Op("interpolate", "fuse_pool4", "score_pool3", "upscore_pool4"),
                       Op("add", "upscore_pool4", "score_pool3", "fuse_pool3")>>
    /\ pc' = "upsample"
    /\ UNCHANGED <<call, obj, model, log, err, blob, xin, outputs>>

\* The score map each variant upsamples to the input's size.
Fused(variant) ==
    CASE variant = "FCN32s" -> "score_fr"
      [] variant = "FCN16s" -> "fuse_pool4"
      [] variant = "FCN8s" -> "fuse_pool3"

\* ToInput with the final upsampling left out.
ToInput_Skipped(t, x) == t

\* F.interpolate(t, x.size()[2:], mode='bilinear', align_corners=True)
ToInput(t, x) == Interpolate(t, <<x.h, x.w>>)

\* ForwardUpsample with the aux flag ignored.
ForwardUpsample_NoAux ==
    /\ pc = "upsample"
    /\ loc' = loc @@ ("out" :> Interpolate(loc[Fused(model.variant)], <<xin.h, xin.w>>))
    /\ outputs' = Append(outputs, Interpolate(loc[Fused(model.variant)], <<xin.h, xin.w>>))
    /\ ops' = Append(ops, Op("interpolate", Fused(model.variant), "x", "out"))
    /\ pc' = "return"
    /\ UNCHANGED <<call, obj, model, log, err, blob, xin>>

\* out = F.interpolate(<fused>, x.size()[2:], ...); outputs.append(out)
ForwardUpsample ==
    /\ pc = "upsample"
    /\ loc' = loc @@ ("out" :> ToInput(loc[Fused(model.variant)], xin))
    /\ outputs' = Append(outputs, ToInput(loc[Fused(model.variant)], xin))
    /\ ops' = Append(ops, Op("interpolate", Fused(model.variant), "x", "out"))
    /\ pc' = IF model.aux THEN "aux" ELSE "return"
    /\ UNCHANGED <<call, obj, model, log, err, blob, xin>>

\* if self.aux: auxout = self.auxlayer(pool5)
ForwardAuxHead ==
    /\ pc = "aux"
    /\ \E drop \in DropMasks(model.training) :
          HeadCall("auxlayer", "auxlayer_out", drop, "aux_upsample")
    /\ UNCHANGED <<call, obj, log, blob, xin, outputs, ops>>

\* ForwardAuxUpsample with the auxiliary score added into the primary output.
ForwardAuxUpsample_Fused ==
    /\ pc = "aux_upsample"
    /\ loc' = loc @@ ("auxout" :> Interpolate(loc["auxlayer_out"], <<xin.h, xin.w>>))
    /\ outputs' = <<Add(outputs[1], Interpolate(loc["auxlayer_out"], <<xin.h, xin.w>>)),
                    Interpolate(loc["auxlayer_out"], <<xin.h, xin.w>>)>>
    /\ ops' = Append(ops, Op("interpolate", "auxlayer_out", "x", "auxout"))
    /\ pc' = "return"
    /\ UNCHANGED <<call, obj, model, log, err, blob, xin>>

\* auxout = F.interpolate(auxout, x.size()[2:], ...); outputs.append(auxout)
ForwardAuxUpsample ==
    /\ pc = "aux_upsample"
    /\ loc' = loc @@ ("auxout" :> ToInput(loc["auxlayer_out"], xin))
    /\ outputs' = Append(outputs, ToInput(loc["auxlayer_out"], xin))
    /\ ops' = Append(ops, Op("interpolate", "auxlayer_out", "x", "auxout"))
    /\ pc' = "return"
    /\ UNCHANGED <<call, obj, model, log, err, blob, xin>>

\* return tuple(outputs)
ForwardReturn ==
    /\ pc = "return"
    /\ pc' = "done"
    /\ UNCHANGED <<call, obj, model, log, err, blob, fwdVars>>

\* The models forward is called on: every variant as its constructor leaves
\* it (for the default dataset's class count and the default
\* pretrained_base=True), and as load_state_dict leaves it after a
\* whole-model weight load.
ReadyModels ==
    LET n == datasets["pascal_voc"]
        fresh(v, a) == WithDecoder(WithBackbone(v, n, a, TRUE))
    IN  {fresh(v, a) : v \in Variants, a \in BOOLEAN}
        \cup {LoadStateDict(fresh(v, a), Blob(v, a, n, id)) :
                 v \in Variants, a \in BOOLEAN, id \in BlobIds}

InitForward ==
    /\ pc = "ready"
    /\ model \in ReadyModels
    /\ call = NoCall
    /\ obj = NoModel
    /\ log = <<>>
    /\ err = "none"
    /\ blob = NoFile
    /\ xin = NoInput
    /\ loc = <<>>
    /\ outputs = <<>>
    /\ ops = <<>>

NextForward ==
    \/ Eval
    \/ Train
    \/ ForwardFeatures
    \/ ForwardHead
    \/ ForwardProject
    \/ ForwardFusePool4
    \/ ForwardFusePool3
    \/ ForwardUpsample
    \/ ForwardAuxHead
    \/ ForwardAuxUpsample
    \/ ForwardReturn

SpecForward == InitForward /\ [][NextForward]_vars

\* ------------------------------------------------------------------ claims

Has(name) == name \in DOMAIN loc

ForwardPcs ==
    {"head", "project", "fuse_pool4", "fuse_pool3", "upsample", "aux", "aux_upsample", "return"}

\* C1: whenever forward has produced its primary output, and so whenever it
\* returns, outputs[1] has the input's spatial size (H, W) and nclass
\* channels, whatever sizes pool3, pool4 and pool5 had.
C1_PrimaryShape ==
    /\ pc = "done" => Len(outputs) >= 1
    /\ Len(outputs) >= 1 =>
          /\ SizeOf(outputs[1]) = <<xin.h, xin.w>>
          /\ outputs[1].c = model.nclass

\* A returned FCN8s forward whose input and three cut-points all differ in size.
C1_Witness ==
    /\ pc = "done"
    /\ model.variant = "FCN8s"
    /\ xin.h = 3
    /\ loc["pool3"].h = 2
    /\ loc["pool4"].h = 2
    /\ loc["pool4"].w = 1
    /\ loc["pool5"].h = 1
    /\ SizeOf(outputs[1]) = <<3, xin.w>>

\* C2: forward returns two outputs when the model was built with aux, the
\* second with the input's spatial size and nclass channels, and exactly one
\* output, with no auxiliary tensor computed, when it was built without.
C2_AuxOutput ==
    /\ pc = "done" => Len(outputs) = IF model.aux THEN 2 ELSE 1
    /\ Len(outputs) >= 2 =>
          /\ SizeOf(outputs[2]) = <<xin.h, xin.w>>
          /\ outputs[2].c = model.nclass
    /\ pc \in ForwardPcs \cup {"done"} /\ ~model.aux =>
          /\ Len(outputs) <= 1
          /\ ~Has("auxlayer_out")
          /\ ~Has("auxout")

C2_Witness ==
    /\ pc = "done"
    /\ model.aux
    /\ Len(outputs) = 2
    /\ xin.h = 3
    /\ loc["pool5"].h = 2
    /\ SizeOf(outputs[2]) = <<3, xin.w>>

\* C3: in a factory call with an unregistered dataset id, once the registry
\* lookup has run the call has raised the unknown-dataset error, and nothing
\* else has happened: no backbone was constructed, no object exists, the
\* model store was not asked, no model is held.
C3_UnknownDatasetFirst ==
    (call.kind = "factory" /\ call.dataset \notin DOMAIN datasets /\ pc # "resolve") =>
        /\ pc = "raised"
        /\ err = "KeyError: dataset"
        /\ obj = NoModel
        /\ model = NoModel
        /\ blob = NoFile
        /\ \A i \in DOMAIN log : log[i].ev = "datasets"

C3_Witness ==
    /\ pc = "raised"
    /\ err = "KeyError: dataset"
    /\ call.dataset = "not_a_dataset"
    /\ call.backbone = "resnet999"
    /\ call.pretrained

\* C4: a factory call with pretrained = true reaches its return statement
\* only after load_state_dict replaced every entry of the model's state by
\* the resolved file's, so no entry is still as constructed; a dataset
\* without acronym or a key the store cannot resolve never gets there.
C4_PretrainedOrRaise ==
    (call.kind = "factory" /\ call.pretrained /\ pc \in {"return", "returned"}) =>
        /\ call.dataset \in DOMAIN acronyms
        /\ blob # NoFile
        /\ obj.sd = blob
        /\ \A k \in DOMAIN obj.sd :
              obj.sd[k] # WithDecoder(WithBackbone(call.variant, call.nclass, call.aux,
                                                   call.pretrained_base)).sd[k]
        /\ pc = "returned" => model = obj

C4_Witness ==
    /\ pc = "returned"
    /\ call.kind = "factory"
    /\ call.pretrained
    /\ call.variant = "FCN8s"
    /\ call.aux
    /\ model.sd = blob

\* C5: a constructor call (direct, or from a factory whose dataset is
\* registered) with a backbone other than 'vgg16' ends, at the backbone
\* test, in the unsupported-backbone error: no Head, Score Projector or
\* backbone exists, no model is held, and the model store was not asked.
C5_UnsupportedBackbone ==
    (/\ call.kind # "none"
     /\ call.backbone # "vgg16"
     /\ call.kind = "factory" => call.dataset \in DOMAIN datasets
     /\ pc \notin {"resolve", "init"}) =>
        /\ pc = "raised"
        /\ err = "RuntimeError: unknown backbone"
        /\ model = NoModel
        /\ obj.sd = <<>>
        /\ blob = NoFile
        /\ \A i \in DOMAIN log : log[i].ev = "datasets"

C5_Witness ==
    /\ pc = "raised"
    /\ err = "RuntimeError: unknown backbone"
    /\ call.kind = "factory"
    /\ call.variant = "FCN8s"
    /\ call.pretrained
    /\ call.backbone = "resnet999"

\* C8: every key a factory asks the model store for is "fcn32s_", the
\* backbone, "_" and the dataset's acronym, whichever variant the factory
\* builds; a key is asked for at most once per call.
C8_KeyIsFcn32s ==
    /\ \A i \in DOMAIN log :
          log[i].ev = "get_model_file" =>
              log[i].arg = "fcn32s_" \o call.backbone \o "_" \o acronyms[call.dataset]
    /\ Cardinality({i \in DOMAIN log : log[i].ev = "get_model_file"}) <= 1

C8_Witness ==
    /\ call.kind = "factory"
    /\ call.variant = "FCN8s"
    /\ call.dataset = "ade20k"
    /\ \E i \in DOMAIN log : log[i] = Event("get_model_file", "fcn32s_vgg16_ade")

\* The three score maps of a cascade, each taken alone to the input's size
\* along the path the cascade sends it.
FrAlone(x) ==
    ToInput(Interpolate(Interpolate(loc["score_fr"], SizeOf(loc["score_pool4"])),
                        SizeOf(loc["score_pool3"])), x)

Pool4Alone(x) == ToInput(Interpolate(loc["score_pool4"], SizeOf(loc["score_pool3"])), x)

Pool3Alone(x) == ToInput(loc["score_pool3"], x)

\* C6: the primary output FCN8s returns is the sum of score_fr, score_pool4 and
\* score_pool3, each interpolated alone along its path; with score_pool3
\* all zero (as computed, or put in its place) it is exactly the
\* FCN16s-style fuse_pool4 = upsample(score_fr) + score_pool4, interpolated
\* to pool3's size and then to the input's.
C6_LinearSuperposition ==
    (model.variant = "FCN8s" /\ pc = "done") =>
        LET fuse16 == FusePool4(loc["score_fr"], loc["score_pool4"])
            via3 == ToInput(Interpolate(fuse16, SizeOf(loc["score_pool3"])), xin)
            zero3 == Zeros(loc["score_pool3"].c, loc["score_pool3"].h, loc["score_pool3"].w)
        IN  /\ TEq(loc["out"], Add(Add(FrAlone(xin), Pool4Alone(xin)), Pool3Alone(xin)))
            /\ TEq(ToInput(FusePool3(fuse16, zero3), xin), via3)
            /\ IsZero(loc["score_pool3"]) => TEq(loc["out"], via3)

\* A returned FCN8s forward whose score_pool3 is all zero while the other two
\* score maps are not, with sizes that make every interpolation a real one.
C6_Witness ==
    /\ pc = "done"
    /\ model.variant = "FCN8s"
    /\ IsZero(loc["score_pool3"])
    /\ ~IsZero(loc["score_pool4"])
    /\ ~IsZero(loc["score_fr"])
    /\ xin.h = 3
    /\ loc["pool3"].h = 2
    /\ loc["pool4"].h = 2
    /\ loc["pool5"].h = 1
    /\ ~IsZero(loc["out"])

\* C7 as claimed: no step of a forward call (one that goes on to return, at
\* the least) changes the model.
C7_ForwardNeverMutates ==
    [][((pc \in ForwardPcs \/ pc' = "head") /\ pc' # "raised") => model' = model]_vars

\* The primary output as a function of the variant, the parameters, the mode,
\* the feature maps, the input size and the Head's dropout draw.
PrimaryOf(variant, sd, training, pools, x, drop) ==
    LET fr == HeadForward(sd["head"], pools["pool5"], training, drop)
        sp4 == ProjectorForward(sd["score_pool4"], pools["pool4"])
        sp3 == ProjectorForward(sd["score_pool3"], pools["pool3"])
        f4 == Add(Interpolate(fr, SizeOf(sp4)), sp4)
        f3 == Add(Interpolate(f4, SizeOf(sp3)), sp3)
    IN  CASE variant = "FCN32s" -> Interpolate(fr, <<x.h, x.w>>)
          [] variant = "FCN16s" -> Interpolate(f4, <<x.h, x.w>>)
          [] variant = "FCN8s" -> Interpolate(f3, <<x.h, x.w>>)

AuxOf(sd, training, pools, x, drop) ==
    Interpolate(HeadForward(sd["auxlayer"], pools["pool5"], training, drop), <<x.h, x.w>>)

\* C7, amended: on a model in evaluation mode no step of a forward call
\* changes the model, and the outputs are the function of the input and the
\* current parameters (no dropout draw enters).
C7_EvalForwardIsPure ==
    /\ [][((pc \in ForwardPcs \/ pc' = "head") /\ ~model.training) => model' = model]_vars
    /\ [](((pc = "done" /\ ~model.training) =>
            /\ outputs[1] = PrimaryOf(model.variant, model.sd, FALSE, loc, xin, {})
            /\ model.aux => outputs[2] = AuxOf(model.sd, FALSE, loc, xin, {})))

\* A returned evaluation-mode forward through both Heads, whose BatchNorm
\* buffers are those of a loaded weight file.
C7_Witness ==
    /\ pc = "done"
    /\ ~model.training
    /\ model.aux
    /\ model.sd["head"].nbt = 3
    /\ model.sd["head"].rmn = 1
    /\ Len(outputs) = 2

\* The operations of each variant's cascade, in order.
CascadeOps(variant) ==
    CASE variant = "FCN32s" -> <<Op("interpolate", "score_fr", "x", "out")>>
      [] variant = "FCN16s" ->
            <<Op("interpolate", "score_fr", "score_pool4", "upscore2"),
              Op("add", "upscore2", "score_pool4", "fuse_pool4"),
              Op("interpolate", "fuse_pool4", "x", "out")>>
      [] variant = "FCN8s" ->
            <<Op("interpolate", "score_fr", "score_pool4", "upscore2"),
              Op("add", "upscore2", "score_pool4", "fuse_pool4"),
              Op("interpolate", "fuse_pool4", "score_pool3", "upscore_pool4"),
              Op("add", "upscore_pool4", "score_pool3", "fuse_pool3"),
              Op("interpolate", "fuse_pool3", "x", "out")>>

IsPrefix(a, b) == Len(a) <= Len(b) /\ a = SubSeq(b, 1, Len(a))

Skips == {"score_pool3", "score_pool4"}

\* C9: in FCN16s and FCN8s the cascade runs in one order, coarse to fine: the
\* operations done so far are a prefix of the variant's list and, once out
\* exists, all of it; the running score is score_fr grown to score_pool4's
\* size plus score_pool4, then that grown to score_pool3's size plus
\* score_pool3; each skip score enters one addition, as computed by its
\* projector and never resized, and never together with the other skip.
C9_CascadeOrder ==
    (model.variant \in {"FCN16s", "FCN8s"} /\ pc \in ForwardPcs \cup {"done"}) =>
        LET cascade == SelectSeq(ops, LAMBDA o : o.res # "auxout")
        IN  /\ IsPrefix(cascade, CascadeOps(model.variant))
            /\ Has("out") => cascade = CascadeOps(model.variant)
            /\ \A i \in DOMAIN ops :
                  /\ ops[i].op = "interpolate" => ops[i].a \notin Skips
                  /\ ops[i].op = "add" => ops[i].a \notin Skips /\ ops[i].b \in Skips
            /\ Has("score_pool4") =>
                  loc["score_pool4"] = ProjectorForward(model.sd["score_pool4"], loc["pool4"])
            /\ Has("score_pool3") =>
                  loc["score_pool3"] = ProjectorForward(model.sd["score_pool3"], loc["pool3"])
            /\ Has("fuse_pool4") =>
                  /\ loc["upscore2"] = Interpolate(loc["score_fr"], SizeOf(loc["pool4"]))
                  /\ loc["fuse_pool4"] = Add(loc["upscore2"], loc["score_pool4"])
                  /\ SizeOf(loc["fuse_pool4"]) = SizeOf(loc["pool4"])
            /\ Has("fuse_pool3") =>
                  /\ loc["upscore_pool4"] = Interpolate(loc["fuse_pool4"], SizeOf(loc["pool3"]))
                  /\ loc["fuse_pool3"] = Add(loc["upscore_pool4"], loc["score_pool3"])
                  /\ SizeOf(loc["fuse_pool3"]) = SizeOf(loc["pool3"])
            /\ Has("out") =>
                  loc["out"] = Interpolate(loc[Fused(model.variant)], <<xin.h, xin.w>>)

\* A returned FCN8s forward over strictly shrinking cut-points.
C9_Witness ==
    /\ pc = "done"
    /\ model.variant = "FCN8s"
    /\ Len(ops) >= 5
    /\ xin.h = 3
    /\ loc["score_pool3"].h = 3
    /\ loc["score_pool4"].h = 2
    /\ loc["score_fr"].h = 1
    /\ ~IsZero(loc["score_pool3"])
    /\ ~IsZero(loc["score_pool4"])

\* C10: the primary output forward returns is what the variant, the parameters other than the
\* auxiliary Head's, the mode, the feature maps and the Head's dropout draw
\* determine, with or without aux; the auxiliary output is the auxiliary
\* Head's score of pool5 interpolated straight to the input's size, and no
\* operation of the cascade reads it.
C10_AuxApart ==
    /\ pc = "done" =>
          \E drop \in DropMasks(model.training) :
             outputs[1] = PrimaryOf(model.variant,
                                    [k \in DOMAIN model.sd \ {"auxlayer"} |-> model.sd[k]],
                                    model.training, loc, xin, drop)
    /\ pc = "done" /\ model.aux =>
          \E drop \in DropMasks(model.training) :
             outputs[2] = AuxOf(model.sd, model.training, loc, xin, drop)
    /\ \A i \in DOMAIN ops :
          /\ ops[i].a \notin {"auxlayer_out", "auxout"} \/ ops[i].res = "auxout"
          /\ ops[i].b \notin {"auxlayer_out", "auxout"}

\* A returned forward with aux whose two outputs differ.
C10_Witness ==
    /\ pc = "done"
    /\ model.aux
    /\ model.variant = "FCN8s"
    /\ Len(outputs) = 2
    /\ ~TEq(outputs[1], outputs[2])
    /\ xin.h = 3

====
